---- MODULE Spec2Model ----
(***************************************************************************)
(* Trigger-Simulator (src/simulator.js): the discrete-event engine of the  *)
(* Simulator class and the pulse handling of the Trigger class.            *)
(*                                                                         *)
(* A JavaScript string whose characters matter (a channel list, a channel  *)
(* name, the value of an input field) is a sequence of one-character       *)
(* strings, "X, Y" being <<"X", ",", " ", "Y">>.  Trigger ids and log      *)
(* lines are only compared, and are plain strings.                         *)
(***************************************************************************)
EXTENDS Integers, Sequences, FiniteSets, TLC

VARIABLES
    triggers,        \* this.triggers: the Trigger objects, in property-creation order
    eventQueue,      \* this.eventQueue: array of event objects
    time,            \* this.time
    isSimulating,    \* this.isSimulating
    selectedTrigger, \* this.selectedTrigger: the id of the selected Trigger, or NoId
    activeTimeouts,  \* this.activeTimeouts: array of timeout ids
    timers,          \* the host's pending setTimeout callbacks of run(): [id, event]
    logHead,         \* the first child of this.logOutput (logEvent prepends)
    delivered        \* history: the events broadcast since the current run started

vars == <<triggers, eventQueue, time, isSimulating, selectedTrigger,
          activeTimeouts, timers, logHead, delivered>>

(***************************************************************************)
(* Bounds of the model.                                                    *)
(***************************************************************************)
MaxTime == 2
MaxQueue == 2
MaxRun == 3

(***************************************************************************)
(* JavaScript values.                                                      *)
(***************************************************************************)
\* null, where a string may stand too (whenTriggered); no string of
\* one-character strings equals it.
Null == <<"null">>
\* No Trigger (selectedTrigger === null, triggers[id] === undefined).
NoId == "<none>"
\* The truthiness of a string-or-null value: null and "" are falsy.
Truthy(v) == v # Null /\ v # <<>>
\* The value of a property of a plain object, Null when the object has none.
Prop(obj, name) == IF name \in DOMAIN obj THEN obj[name] ELSE Null

Max(S) == CHOOSE m \in S : \A n \in S : n <= m
Range(s) == {s[i] : i \in 1..Len(s)}

(***************************************************************************)
(* parseChannels (lines 2-5): split(','), trim() each part, drop the empty *)
(* parts.                                                                  *)
(***************************************************************************)
RECURSIVE split(_)
split(s) ==
    IF \A i \in 1..Len(s) : s[i] # ","
    THEN <<s>>
    ELSE LET i == CHOOSE k \in 1..Len(s) :
                      s[k] = "," /\ \A j \in 1..(k - 1) : s[j] # ","
         IN  <<SubSeq(s, 1, i - 1)>> \o split(SubSeq(s, i + 1, Len(s)))

\* The white space that String.prototype.trim removes, as far as the model
\* has it.
WhiteSpace == {" ", "\t", "\n"}

\* A trim that removes the leading white space only.
RECURSIVE trimStart(_)
trimStart(s) ==
    IF s = <<>> THEN s
    ELSE IF Head(s) \in WhiteSpace THEN trimStart(Tail(s))
    ELSE s

RECURSIVE trim(_)
trim(s) ==
    IF s = <<>> THEN s
    ELSE IF Head(s) \in WhiteSpace THEN trim(Tail(s))
    ELSE IF s[Len(s)] \in WhiteSpace THEN trim(SubSeq(s, 1, Len(s) - 1))
    ELSE s

\* Values that are not strings: typeof v !== 'string'.
NonStrings == {Null, <<"undefined">>, <<"number">>, <<"object">>}

parseChannels(channelString) ==
    IF ~Truthy(channelString) \/ channelString \in NonStrings
    THEN <<>>
    ELSE LET parts == split(channelString)
             trimmed == [i \in 1..Len(parts) |-> trim(parts[i])]
             NonEmpty(c) == c # <<>>
         IN  SelectSeq(trimmed, NonEmpty)

\* Array.prototype.join on an array of strings.
RECURSIVE join(_, _)
join(list, separator) ==
    IF list = <<>> THEN <<>>
    ELSE IF Len(list) = 1 THEN list[1]
    ELSE list[1] \o separator \o join(Tail(list), separator)

\* Array.prototype.includes on an array of channel names.
includes(list, channel) == \E i \in 1..Len(list) : list[i] = channel

(***************************************************************************)
(* Trigger (lines 7-130).  x, y and the DOM element carry no simulation    *)
(* state and are left out.                                                 *)
(***************************************************************************)
\* constructor(config), lines 8-24.
NewTrigger(config) ==
    [ id            |-> config.id,
      delay         |-> IF "delay" \in DOMAIN config /\ config.delay # 0
                        THEN config.delay ELSE 0,
      activateOn    |-> parseChannels(Prop(config, "activateOn")),
      deactivateOn  |-> parseChannels(Prop(config, "deactivateOn")),
      triggerOn     |-> parseChannels(Prop(config, "triggerOn")),
      whenTriggered |-> IF Truthy(Prop(config, "whenTriggered"))
                        THEN config.whenTriggered ELSE Null,
      initialState  |-> "initialState" \in DOMAIN config /\ config.initialState,
      state         |-> "initialState" \in DOMAIN config /\ config.initialState ]

\* An event object {time, channel, sourceId}.  seq is the object's identity:
\* the number of the push that created it, counted within the run.
Event(t, channel, sourceId, seq) ==
    [time |-> t, channel |-> channel, sourceId |-> sourceId, seq |-> seq]

\* The two checks in the other order: activation wins.
StateAfterChecksSwapped(t, channel) ==
    LET s1 == IF Truthy(channel) /\ includes(t.deactivateOn, channel)
              THEN FALSE ELSE t.state
    IN  IF Truthy(channel) /\ includes(t.activateOn, channel)
        THEN TRUE ELSE s1

\* The state of the trigger after the activation and deactivation checks of
\* handlePulse, lines 45-56.
StateAfterChecks(t, channel) ==
    LET s1 == IF Truthy(channel) /\ includes(t.activateOn, channel)
              THEN TRUE ELSE t.state
    IN  IF Truthy(channel) /\ includes(t.deactivateOn, channel)
        THEN FALSE ELSE s1

\* A handlePulse whose fire check reads the state from before the call.
handlePulseStale(t, channel, currentTime, seq) ==
    LET st == StateAfterChecks(t, channel)
        fires == Truthy(channel) /\ includes(t.triggerOn, channel) /\ t.state
    IN  [ trigger |-> [t EXCEPT !.state = st],
          pushed  |-> IF fires /\ Truthy(t.whenTriggered)
                      THEN <<Event(currentTime + t.delay, t.whenTriggered, t.id, seq)>>
                      ELSE <<>>,
          handled |-> \/ Truthy(channel) /\ includes(t.activateOn, channel)
                      \/ Truthy(channel) /\ includes(t.deactivateOn, channel)
                      \/ fires ]

\* A handlePulse that reports a pulse as handled whenever the channel is in
\* one of its three lists.
handlePulseListed(t, channel, currentTime, seq) ==
    LET st == StateAfterChecks(t, channel)
        fires == Truthy(channel) /\ includes(t.triggerOn, channel) /\ st
    IN  [ trigger |-> [t EXCEPT !.state = st],
          pushed  |-> IF fires /\ Truthy(t.whenTriggered)
                      THEN <<Event(currentTime + t.delay, t.whenTriggered, t.id, seq)>>
                      ELSE <<>>,
          handled |-> \/ Truthy(channel) /\ includes(t.activateOn, channel)
                      \/ Truthy(channel) /\ includes(t.deactivateOn, channel)
                      \/ Truthy(channel) /\ includes(t.triggerOn, channel) ]

\* A handlePulse that schedules the follow-up at the current time.
handlePulseNoDelay(t, channel, currentTime, seq) ==
    LET st == StateAfterChecks(t, channel)
        fires == Truthy(channel) /\ includes(t.triggerOn, channel) /\ st
    IN  [ trigger |-> [t EXCEPT !.state = st],
          pushed  |-> IF fires /\ Truthy(t.whenTriggered)
                      THEN <<Event(currentTime, t.whenTriggered, t.id, seq)>>
                      ELSE <<>>,
          handled |-> \/ Truthy(channel) /\ includes(t.activateOn, channel)
                      \/ Truthy(channel) /\ includes(t.deactivateOn, channel)
                      \/ fires ]

\* A handlePulse whose activation also rewrites the baseline.
handlePulseRebase(t, channel, currentTime, seq) ==
    LET st == StateAfterChecks(t, channel)
        fires == Truthy(channel) /\ includes(t.triggerOn, channel) /\ st
    IN  [ trigger |-> [t EXCEPT !.state = st,
                                !.initialState = IF st # t.state THEN st ELSE @],
          pushed  |-> IF fires /\ Truthy(t.whenTriggered)
                      THEN <<Event(currentTime + t.delay, t.whenTriggered, t.id, seq)>>
                      ELSE <<>>,
          handled |-> \/ Truthy(channel) /\ includes(t.activateOn, channel)
                      \/ Truthy(channel) /\ includes(t.deactivateOn, channel)
                      \/ fires ]

\* handlePulse(channel, eventQueue, currentTime), lines 43-67: the trigger
\* afterwards, the events it pushed (none or one) and the value returned.
handlePulse(t, channel, currentTime, seq) ==
    LET st == StateAfterChecks(t, channel)
        fires == Truthy(channel) /\ includes(t.triggerOn, channel) /\ st
    IN  [ trigger |-> [t EXCEPT !.state = st],
          pushed  |-> IF fires /\ Truthy(t.whenTriggered)
                      THEN <<Event(currentTime + t.delay, t.whenTriggered, t.id, seq)>>
                      ELSE <<>>,
          handled |-> \/ Truthy(channel) /\ includes(t.activateOn, channel)
                      \/ Truthy(channel) /\ includes(t.deactivateOn, channel)
                      \/ fires ]

\* A reset that takes the current state as the baseline.
resetBaseline(t) == [t EXCEPT !.initialState = t.state]

\* reset(), lines 105-108.
reset(t) == [t EXCEPT !.state = t.initialState]


(***************************************************************************)
(* Simulator (lines 132-460).  A simulator value is a record of the fields *)
(* of `this` (with the host's timer table and the history); each method is *)
(* an operator from the simulator before the call to the simulator after.  *)
(***************************************************************************)
\* The simulator of the current state.
This ==
    [ triggers        |-> triggers,
      eventQueue      |-> eventQueue,
      time            |-> time,
      isSimulating    |-> isSimulating,
      selectedTrigger |-> selectedTrigger,
      activeTimeouts  |-> activeTimeouts,
      timers          |-> timers,
      logHead         |-> logHead,
      delivered       |-> delivered ]

\* The next state holds the simulator s.
Becomes(s) ==
    /\ triggers' = s.triggers
    /\ eventQueue' = s.eventQueue
    /\ time' = s.time
    /\ isSimulating' = s.isSimulating
    /\ selectedTrigger' = s.selectedTrigger
    /\ activeTimeouts' = s.activeTimeouts
    /\ timers' = s.timers
    /\ logHead' = s.logHead
    /\ delivered' = s.delivered

\* constructor(), lines 133-162.
NewSimulator ==
    [ triggers        |-> <<>>,
      eventQueue      |-> <<>>,
      time            |-> 0,
      isSimulating    |-> FALSE,
      selectedTrigger |-> NoId,
      activeTimeouts  |-> <<>>,
      timers          |-> {},
      logHead         |-> "",
      delivered       |-> <<>> ]

\* logEvent(message), lines 419-424: the entry is prepended.
logEvent(this, message) == [this EXCEPT !.logHead = message]

\* this.triggers[id] is defined.
HasTrigger(this, id) == \E i \in 1..Len(this.triggers) : this.triggers[i].id = id
\* this.triggers[id], for an id the object has.
TriggerOf(this, id) ==
    this.triggers[CHOOSE i \in 1..Len(this.triggers) : this.triggers[i].id = id]

\* Property keys that are array indices ("0", "1", ...): an object lists them
\* first, in ascending numeric order, before its other keys.
IsArrayIndex(id) == id \in {"0", "1", "2", "3", "4", "5", "6", "7", "8", "9"}
IndexValue(id) ==
    CASE id = "0" -> 0 [] id = "1" -> 1 [] id = "2" -> 2 [] id = "3" -> 3
      [] id = "4" -> 4 [] id = "5" -> 5 [] id = "6" -> 6 [] id = "7" -> 7
      [] id = "8" -> 8 [] id = "9" -> 9

RECURSIVE AscendingIndex(_)
AscendingIndex(ts) ==
    IF ts = <<>> THEN <<>>
    ELSE LET i == CHOOSE k \in 1..Len(ts) :
                      \A j \in 1..Len(ts) : IndexValue(ts[k].id) <= IndexValue(ts[j].id)
             rest == [j \in 1..(Len(ts) - 1) |-> IF j < i THEN ts[j] ELSE ts[j + 1]]
         IN  <<ts[i]>> \o AscendingIndex(rest)

\* Object.values(this.triggers), lines 317, 328, 415, 428.
ObjectValues(ts) ==
    LET IsIndex(t) == IsArrayIndex(t.id)
        IsOther(t) == ~IsArrayIndex(t.id)
    IN  AscendingIndex(SelectSeq(ts, IsIndex)) \o SelectSeq(ts, IsOther)

\* The identity of the next event object: past every event of the run.
NextSeq(this) ==
    LET used == {e.seq : e \in Range(this.eventQueue) \cup Range(this.delivered)}
                    \cup {tm.event.seq : tm \in this.timers}
    IN  IF used = {} THEN 0 ELSE Max(used) + 1

\* No sort at all: the queue is left in push order.
sortByTimeNone(q) == q

\* A sort that is not stable: an event goes before the events of its own time.
RECURSIVE sortByTimeUnstable(_)
sortByTimeUnstable(q) ==
    IF q = <<>> THEN <<>>
    ELSE LET n == Len(q)
             front == sortByTimeUnstable(SubSeq(q, 1, n - 1))
             k == Cardinality({i \in 1..(n - 1) : front[i].time < q[n].time})
         IN  SubSeq(front, 1, k) \o <<q[n]>> \o SubSeq(front, k + 1, n - 1)

\* eventQueue.sort((a, b) => a.time - b.time), line 309.  Array.prototype.sort
\* is stable: events of equal time keep their order in the array.
RECURSIVE sortByTime(_)
sortByTime(q) ==
    IF q = <<>> THEN <<>>
    ELSE LET n == Len(q)
             front == sortByTime(SubSeq(q, 1, n - 1))
             k == Cardinality({i \in 1..(n - 1) : front[i].time <= q[n].time})
         IN  SubSeq(front, 1, k) \o <<q[n]>> \o SubSeq(front, k + 1, n - 1)

\* The id setTimeout returns: one no pending timer and no entry of
\* activeTimeouts holds (ids are only ever compared with each other).
FreshTimeoutId(this) ==
    LET used == {tm.id : tm \in this.timers} \cup Range(this.activeTimeouts)
    IN  CHOOSE n \in 0..Cardinality(used) :
            n \notin used /\ \A m \in 0..(n - 1) : m \in used

\* No timeout is cancelled.
clearTimeoutsNone(pending, ids) == pending

\* clearTimeout(id) for every id of ids.
clearTimeouts(pending, ids) == {tm \in pending : tm.id \notin ids}

\* A run() that logs the end of the simulation and stays busy.
runStaysBusy(this) ==
    IF Len(this.eventQueue) = 0
    THEN logEvent(this, "--- Simulation End ---")
    ELSE LET sorted == sortByTime(this.eventQueue)
             ev == Head(sorted)
             timeoutId == FreshTimeoutId(this)
         IN  [logEvent(this, "--- Processing ---") EXCEPT
                 !.eventQueue = Tail(sorted),
                 !.time = ev.time,
                 !.timers = @ \cup {[id |-> timeoutId, event |-> ev]},
                 !.activeTimeouts = Append(@, timeoutId)]

\* run(), lines 302-338, up to the setTimeout call.
run(this) ==
    IF Len(this.eventQueue) = 0
    THEN [logEvent(this, "--- Simulation End ---") EXCEPT !.isSimulating = FALSE]
    ELSE LET sorted == sortByTime(this.eventQueue)
             ev == Head(sorted)
             timeoutId == FreshTimeoutId(this)
         IN  [logEvent(this, "--- Processing ---") EXCEPT
                 !.eventQueue = Tail(sorted),
                 !.time = ev.time,
                 !.timers = @ \cup {[id |-> timeoutId, event |-> ev]},
                 !.activeTimeouts = Append(@, timeoutId)]

\* Object.values(this.triggers).forEach(trigger => trigger.handlePulse(...)),
\* lines 328-331, over the triggers vals: the events pushed, in order.
RECURSIVE Pushes(_, _, _, _)
Pushes(vals, channel, currentTime, seq) ==
    IF vals = <<>> THEN <<>>
    ELSE LET r == handlePulse(Head(vals), channel, currentTime, seq)
         IN  r.pushed \o Pushes(Tail(vals), channel, currentTime, seq + Len(r.pushed))

\* The setTimeout callback of run(), lines 323-336, for the pending timer tm,
\* up to its call of run(), line 335.  The closure holds the popped event; the
\* clock is read when the callback runs.
broadcastPulse(this, tm) ==
    LET channel == tm.event.channel
        shifted == [this EXCEPT
                       !.timers = @ \ {tm},
                       !.activeTimeouts = IF @ = <<>> THEN @ ELSE Tail(@),
                       !.delivered = Append(@, tm.event)]
        pushed == Pushes(ObjectValues(shifted.triggers), channel, shifted.time,
                         NextSeq(shifted))
    IN  [shifted EXCEPT
            !.triggers = [i \in 1..Len(@) |->
                             handlePulse(@[i], channel, shifted.time, 0).trigger],
            !.eventQueue = @ \o pushed]

\* The whole callback.
timeoutCallback(this, tm) == run(broadcastPulse(this, tm))

\* handledAtLeastOnce of the callback, lines 327-334.
handledAtLeastOnce(this, channel) ==
    \E i \in 1..Len(this.triggers) :
        handlePulse(this.triggers[i], channel, this.time, 0).handled

\* A pulseChannel without the run gate.
pulseChannelUngated(this, channel, t) ==
    IF ~Truthy(channel)
    THEN this
    ELSE LET started == [this EXCEPT !.isSimulating = TRUE, !.delivered = <<>>]
         IN  run([started EXCEPT
                     !.eventQueue = Append(@, Event(t, channel, "EXTERNAL",
                                                    NextSeq(started)))])

\* pulseChannel(channel, time = 0), lines 260-273.
pulseChannel(this, channel, t) ==
    IF this.isSimulating
    THEN logEvent(this, "Cannot pulse; simulation is already running.")
    ELSE IF ~Truthy(channel)
    THEN this
    ELSE LET started == [this EXCEPT !.isSimulating = TRUE, !.delivered = <<>>]
         IN  run([started EXCEPT
                     !.eventQueue = Append(@, Event(t, channel, "EXTERNAL",
                                                    NextSeq(started)))])

\* A manuallyTrigger that does not look at the trigger's state.
manuallyTriggerAnyState(this, triggerId) ==
    IF this.isSimulating
    THEN logEvent(this, "Cannot manually trigger; simulation is already running.")
    ELSE IF ~HasTrigger(this, triggerId)
    THEN this
    ELSE LET trigger == TriggerOf(this, triggerId)
             started == [this EXCEPT !.isSimulating = TRUE, !.delivered = <<>>]
         IN  IF Truthy(trigger.whenTriggered)
             THEN run([started EXCEPT
                          !.eventQueue = Append(@, Event(started.time + trigger.delay,
                                                         trigger.whenTriggered,
                                                         trigger.id,
                                                         NextSeq(started)))])
             ELSE run(started)

\* manuallyTrigger(triggerId), lines 275-300.
manuallyTrigger(this, triggerId) ==
    IF this.isSimulating
    THEN logEvent(this, "Cannot manually trigger; simulation is already running.")
    ELSE IF ~HasTrigger(this, triggerId)
    THEN this
    ELSE LET trigger == TriggerOf(this, triggerId)
             started == [this EXCEPT !.isSimulating = TRUE, !.delivered = <<>>]
         IN  IF ~trigger.state
             THEN logEvent(this, "Cannot manually trigger; it is inactive.")
             ELSE IF Truthy(trigger.whenTriggered)
             THEN run([started EXCEPT
                          !.eventQueue = Append(@, Event(started.time + trigger.delay,
                                                         trigger.whenTriggered,
                                                         trigger.id,
                                                         NextSeq(started)))])
             ELSE run(started)

\* selectTrigger(trigger), lines 341-353.
selectTrigger(this, id) == [this EXCEPT !.selectedTrigger = id]

\* The keys every object inherits from Object.prototype: this.triggers = {}
\* (line 134) has a truthy value under each of them, whatever was added.
InheritedKeys ==
    {"constructor", "toString", "toLocaleString", "valueOf", "hasOwnProperty",
     "isPrototypeOf", "propertyIsEnumerable", "__proto__", "__defineGetter__",
     "__defineSetter__", "__lookupGetter__", "__lookupSetter__"}

\* this.triggers[id] is truthy, line 241.
TruthyLookup(this, id) == HasTrigger(this, id) \/ id \in InheritedKeys

\* addTrigger(config), lines 240-249.
addTrigger(this, config) ==
    IF "id" \notin DOMAIN config \/ config.id = "" \/ TruthyLookup(this, config.id)
    THEN this
    ELSE logEvent([this EXCEPT !.triggers = Append(@, NewTrigger(config))],
                  "Trigger created.")

\* deleteTrigger(triggerId), lines 251-258.
deleteTrigger(this, triggerId) ==
    IF ~HasTrigger(this, triggerId)
    THEN this
    ELSE LET Others(t) == t.id # triggerId
         IN  logEvent(selectTrigger([this EXCEPT !.triggers = SelectSeq(@, Others)],
                                    NoId),
                      "Deleted trigger.")

\* clear(), lines 394-405.
clear(this) ==
    selectTrigger([this EXCEPT
                      !.isSimulating = FALSE,
                      !.timers = clearTimeouts(@, Range(this.activeTimeouts)),
                      !.activeTimeouts = <<>>,
                      !.eventQueue = <<>>,
                      !.time = 0,
                      !.logHead = "",
                      !.triggers = <<>>,
                      !.delivered = <<>>],
                  NoId)

\* serialize(), lines 117-129, without the position.
serialize(t) ==
    [ id            |-> t.id,
      delay         |-> t.delay,
      activateOn    |-> join(t.activateOn, <<",", " ">>),
      deactivateOn  |-> join(t.deactivateOn, <<",", " ">>),
      triggerOn     |-> join(t.triggerOn, <<",", " ">>),
      whenTriggered |-> t.whenTriggered,
      initialState  |-> t.initialState ]

\* layoutData of saveLayout(), line 428.
saveLayout(this) ==
    LET vals == ObjectValues(this.triggers)
    IN  [i \in 1..Len(vals) |-> serialize(vals[i])]

\* The value null as an element of a parsed layout.
JsonNull == [null |-> TRUE]

\* layoutData.forEach(config => this.addTrigger(config)) and the log call
\* after it, lines 450-451.  config.id of a null element throws a TypeError
\* (line 241) that the catch clause of line 452 swallows: the elements after
\* it are not added and nothing is restored.
RECURSIVE addEach(_, _)
addEach(this, layoutData) ==
    IF layoutData = <<>> THEN logEvent(this, "Layout loaded.")
    ELSE IF Head(layoutData) = JsonNull THEN this
    ELSE addEach(addTrigger(this, Head(layoutData)), Tail(layoutData))

\* reader.onload of loadLayout(file), lines 445-456, for a file whose text is
\* unparsable, parses to a value that is not an array, or parses to an array.
onload(this, file) ==
    IF file.kind # "array" THEN this ELSE addEach(clear(this), file.elements)

\* A reset that leaves the queued events in the queue.
resetSimulationKeepsQueue(this) ==
    logEvent([this EXCEPT
                 !.isSimulating = FALSE,
                 !.timers = clearTimeouts(@, Range(this.activeTimeouts)),
                 !.activeTimeouts = <<>>,
                 !.time = 0,
                 !.triggers = [i \in 1..Len(@) |-> reset(@[i])],
                 !.delivered = <<>>],
             "Simulation reset to initial states.")

\* resetSimulation(), lines 407-417.
resetSimulation(this) ==
    logEvent([this EXCEPT
                 !.isSimulating = FALSE,
                 !.timers = clearTimeouts(@, Range(this.activeTimeouts)),
                 !.activeTimeouts = <<>>,
                 !.eventQueue = <<>>,
                 !.time = 0,
                 !.triggers = [i \in 1..Len(@) |-> reset(@[i])],
                 !.delivered = <<>>],
             "Simulation reset to initial states.")

\* A toggle without the isSimulating guard.
toggleStateUngated(this, id) ==
    LET Toggle(t) ==
            IF t.id = id
            THEN [t EXCEPT !.state = ~t.state, !.initialState = ~t.state]
            ELSE t
    IN  logEvent([this EXCEPT !.triggers = [i \in 1..Len(@) |-> Toggle(@[i])]],
                 "Manually toggled.")

\* The click handler of a trigger's "Toggle State" button, lines 91-98.
toggleState(this, id) ==
    IF this.isSimulating
    THEN this
    ELSE LET Toggle(t) ==
                 IF t.id = id
                 THEN [t EXCEPT !.state = ~t.state, !.initialState = ~t.state]
                 ELSE t
         IN  logEvent([this EXCEPT !.triggers = [i \in 1..Len(@) |-> Toggle(@[i])]],
                      "Manually toggled.")

\* parseInt(value) for the value of a number input holding a decimal numeral.
DigitValue(c) ==
    CASE c = "0" -> 0 [] c = "1" -> 1 [] c = "2" -> 2 [] c = "3" -> 3
      [] c = "4" -> 4 [] c = "5" -> 5 [] c = "6" -> 6 [] c = "7" -> 7
      [] c = "8" -> 8 [] c = "9" -> 9

RECURSIVE parseInt(_)
parseInt(value) ==
    IF Len(value) = 1 THEN DigitValue(value[1])
    ELSE 10 * parseInt(SubSeq(value, 1, Len(value) - 1)) + DigitValue(value[Len(value)])

\* updateTriggerProperty(e), lines 373-392, for a change event e of an input
\* of the edit panel: e.property is the input's data-property, e.value its
\* value.  The delay input has type number; the others are text inputs.
updateTriggerProperty(this, e) ==
    IF this.selectedTrigger = NoId
    THEN this
    ELSE LET Edit(t) ==
                 IF t.id # this.selectedTrigger THEN t
                 ELSE CASE e.property = "delay" ->
                               [t EXCEPT !.delay = parseInt(e.value)]
                        [] e.property \in {"activateOn", "deactivateOn", "triggerOn"} ->
                               [t EXCEPT ![e.property] = parseChannels(e.value)]
                        [] OTHER ->
                               [t EXCEPT ![e.property] = e.value]
         IN  logEvent([this EXCEPT !.triggers = [i \in 1..Len(@) |-> Edit(@[i])]],
                      "Updated property.")

(***************************************************************************)
(* The state machine.  Every action is one call of a method or one run of  *)
(* a callback; a step is kept within the bounds of the model.              *)
(***************************************************************************)
Bounded(s) ==
    /\ Len(s.eventQueue) <= MaxQueue
    /\ Len(s.delivered) <= MaxRun
    /\ s.time <= MaxTime
    /\ \A e \in Range(s.eventQueue) : e.time <= MaxTime

\* The state holds the simulator s.
Is(s) ==
    /\ triggers = s.triggers
    /\ eventQueue = s.eventQueue
    /\ time = s.time
    /\ isSimulating = s.isSimulating
    /\ selectedTrigger = s.selectedTrigger
    /\ activeTimeouts = s.activeTimeouts
    /\ timers = s.timers
    /\ logHead = s.logHead
    /\ delivered = s.delivered

Init == Is(NewSimulator)

AddTrigger(config) == Becomes(addTrigger(This, config))

DeleteTrigger(id) == Becomes(deleteTrigger(This, id))

PulseChannel(channel, t) == Becomes(pulseChannel(This, channel, t))

ManuallyTrigger(id) == Becomes(manuallyTrigger(This, id))

TimeoutFires(tm) == tm \in timers /\ Becomes(timeoutCallback(This, tm))

ToggleState(id) == HasTrigger(This, id) /\ Becomes(toggleState(This, id))

ResetSimulation == Becomes(resetSimulation(This))

Clear == Becomes(clear(This))

SelectTrigger(id) ==
    /\ id = NoId \/ HasTrigger(This, id)
    /\ Becomes(selectTrigger(This, id))

UpdateTriggerProperty(e) == Becomes(updateTriggerProperty(This, e))

\* The load event of the FileReader of loadLayout(file), lines 445-456.
LoadLayout(file) == Becomes(onload(This, file))

\* The layout is saved and the saved file is loaded.
SaveThenLoad == LoadLayout([kind |-> "array", elements |-> saveLayout(This)])

(***************************************************************************)
(* Inputs.                                                                 *)
(***************************************************************************)
chX == <<"X">>
chY == <<"Y">>

\* The trigger ids of the inputs; "" is the empty id of the add form.
Ids == {"a", "b"}

\* Configurations passed to addTrigger.
Configs ==
    { \* X activates, deactivates and triggers
      [id |-> "a", delay |-> 2, activateOn |-> <<"X">>, deactivateOn |-> <<" ", "X">>,
       triggerOn |-> <<"X">>, whenTriggered |-> chY],
      \* X activates and triggers in one call
      [id |-> "a", delay |-> 1, activateOn |-> <<"X">>, triggerOn |-> <<"X">>,
       whenTriggered |-> chY],
      \* no delay; Y deactivates and triggers in one call
      [id |-> "b", deactivateOn |-> <<"Y">>, triggerOn |-> <<"X", ",", "Y">>,
       whenTriggered |-> chY, initialState |-> TRUE],
      \* fires silently
      [id |-> "b", delay |-> 1, deactivateOn |-> <<"Y">>, triggerOn |-> <<"X">>,
       initialState |-> TRUE],
      \* Y re-schedules Y, one time unit later each time
      [id |-> "b", delay |-> 1, triggerOn |-> <<"X", ",", " ", "Y">>,
       whenTriggered |-> chY, initialState |-> TRUE],
      \* rejected: empty id, no id
      [id |-> "", delay |-> 1],
      [delay |-> 1],
      \* an id that is the name of an inherited property
      [id |-> "constructor", delay |-> 1] }

\* Channels passed to pulseChannel; the pulse button passes no time.
PulseChannels == {<<>>, chX, chY}
PulseTimes == {0}

\* A step stays within the bounds of the model.
InBounds == Bounded(This)

Next ==
    \/ \E config \in Configs : AddTrigger(config) /\ InBounds'
    \/ \E id \in Ids : DeleteTrigger(id) /\ InBounds'
    \/ \E channel \in PulseChannels, t \in PulseTimes :
           PulseChannel(channel, t) /\ InBounds'
    \/ \E id \in Ids : ManuallyTrigger(id) /\ InBounds'
    \/ \E tm \in timers : TimeoutFires(tm) /\ InBounds'
    \/ \E id \in Ids : ToggleState(id) /\ InBounds'
    \/ ResetSimulation /\ InBounds'
    \/ Clear /\ InBounds'

Spec == Init /\ [][Next]_vars


(***************************************************************************)
(* The edit panel: one trigger, selected and edited while pulses run.      *)
(***************************************************************************)
EditConfigs ==
    { [id |-> "a", delay |-> 1, activateOn |-> <<"X">>, triggerOn |-> <<"X">>,
       whenTriggered |-> chY] }

\* Change events of the inputs of the edit panel.
EditEvents ==
    { [property |-> "delay", value |-> <<"2">>],
      [property |-> "activateOn", value |-> <<"Y">>],
      [property |-> "deactivateOn", value |-> <<"X">>],
      [property |-> "triggerOn", value |-> <<"X", ",", " ", "Y">>],
      [property |-> "whenTriggered", value |-> <<>>] }

\* The click handler of the panel's delete button, lines 368-370.
DeleteSelected == selectedTrigger # NoId /\ DeleteTrigger(selectedTrigger)

NextEdit ==
    \/ \E config \in EditConfigs : AddTrigger(config) /\ InBounds'
    \/ \E id \in {"a", NoId} : SelectTrigger(id) /\ InBounds'
    \/ \E e \in EditEvents : UpdateTriggerProperty(e) /\ InBounds'
    \/ DeleteSelected /\ InBounds'
    \/ \E channel \in PulseChannels, t \in PulseTimes :
           PulseChannel(channel, t) /\ InBounds'
    \/ \E tm \in timers : TimeoutFires(tm) /\ InBounds'
    \/ ResetSimulation /\ InBounds'

SpecEdit == Init /\ [][NextEdit]_vars

(***************************************************************************)
(* Every operation of the page on two triggers: creation and deletion,     *)
(* pulses, manual fire and toggle, selection and field edits, reset and    *)
(* clear.                                                                  *)
(***************************************************************************)
FrameConfigs ==
    { [id |-> "a", delay |-> 1, activateOn |-> <<"X">>, triggerOn |-> <<"X">>,
       whenTriggered |-> chY],
      [id |-> "b", deactivateOn |-> <<"Y">>, initialState |-> TRUE] }

FrameEvents ==
    { [property |-> "activateOn", value |-> <<"Y">>],
      [property |-> "deactivateOn", value |-> <<"X">>] }

NextFrame ==
    \/ \E config \in FrameConfigs : AddTrigger(config) /\ InBounds'
    \/ \E id \in Ids : DeleteTrigger(id) /\ InBounds'
    \/ \E id \in {"a", NoId} : SelectTrigger(id) /\ InBounds'
    \/ \E e \in FrameEvents : UpdateTriggerProperty(e) /\ InBounds'
    \/ \E channel \in PulseChannels, t \in PulseTimes :
           PulseChannel(channel, t) /\ InBounds'
    \/ \E id \in Ids : ManuallyTrigger(id) /\ InBounds'
    \/ \E tm \in timers : TimeoutFires(tm) /\ InBounds'
    \/ \E id \in Ids : ToggleState(id) /\ InBounds'
    \/ ResetSimulation /\ InBounds'
    \/ Clear /\ InBounds'

SpecFrame == Init /\ [][NextFrame]_vars

(***************************************************************************)
(* The AND gate that the page builds when it loads (lines 493-500).        *)
(***************************************************************************)
A_ON == <<"A", "_", "O", "N">>
B_ON == <<"B", "_", "O", "N">>
RESET == <<"R", "E", "S", "E", "T">>
AND_SUCCESS == <<"A", "N", "D", "_", "S", "U", "C", "C", "E", "S", "S">>

T_A_MEM == [id |-> "T_A_MEM", activateOn |-> A_ON, deactivateOn |-> RESET,
            initialState |-> TRUE]
T_B_MEM == [id |-> "T_B_MEM", activateOn |-> B_ON, deactivateOn |-> RESET,
            initialState |-> TRUE]
T_CHAIN == [id |-> "T_CHAIN", activateOn |-> A_ON, deactivateOn |-> RESET,
            triggerOn |-> B_ON, whenTriggered |-> AND_SUCCESS, delay |-> 2]
T_RESULT == [id |-> "T_RESULT", activateOn |-> AND_SUCCESS, deactivateOn |-> RESET]

\* The simulator after the window's load handler.
AndGate ==
    logEvent(addTrigger(addTrigger(addTrigger(addTrigger(NewSimulator,
                 T_A_MEM), T_B_MEM), T_CHAIN), T_RESULT),
             "AND Gate loaded.")

InitAnd == Is(AndGate)

AndChannels == {RESET, A_ON, B_ON, AND_SUCCESS}

AndIds == {"T_A_MEM", "T_B_MEM", "T_CHAIN", "T_RESULT"}

NextAnd ==
    \/ \E channel \in AndChannels, t \in PulseTimes : PulseChannel(channel, t)
    \/ \E id \in AndIds : ManuallyTrigger(id) /\ InBounds'
    \/ \E tm \in timers : TimeoutFires(tm)
    \/ ResetSimulation

SpecAnd == InitAnd /\ [][NextAnd]_vars

(***************************************************************************)
(* Pulses that no trigger handles: a and b fire on X and schedule Y and Z, *)
(* c listens for Y and starts inactive, nothing listens for Z.             *)
(***************************************************************************)
chZ == <<"Z">>

HandledConfigs ==
    { [id |-> "a", delay |-> 1, triggerOn |-> chX, whenTriggered |-> chY,
       initialState |-> TRUE],
      [id |-> "b", delay |-> 2, triggerOn |-> chX, whenTriggered |-> chZ,
       initialState |-> TRUE],
      [id |-> "c", triggerOn |-> chY] }

HandledIds == {"a", "b", "c"}

NextHandled ==
    \/ \E config \in HandledConfigs : AddTrigger(config) /\ InBounds'
    \/ \E channel \in {chX, chY, chZ}, t \in PulseTimes :
           PulseChannel(channel, t) /\ InBounds'
    \/ \E tm \in timers : TimeoutFires(tm) /\ InBounds'
    \/ \E id \in HandledIds : ToggleState(id) /\ InBounds'
    \/ ResetSimulation /\ InBounds'

SpecHandled == Init /\ [][NextHandled]_vars

(***************************************************************************)
(* Triggers whose ids are numerals, next to one whose id is not: all fire  *)
(* on X.                                                                   *)
(***************************************************************************)
OrderIds == {"2", "1", "b"}

OrderConfigs ==
    { [id |-> id, delay |-> 1, triggerOn |-> chX, whenTriggered |-> chY,
       initialState |-> TRUE] : id \in OrderIds }

NextOrder ==
    \/ \E config \in OrderConfigs : AddTrigger(config) /\ InBounds'
    \/ \E id \in OrderIds : DeleteTrigger(id) /\ InBounds'
    \/ \E channel \in {chX, chY}, t \in PulseTimes :
           PulseChannel(channel, t) /\ InBounds'
    \/ \E tm \in timers : TimeoutFires(tm) /\ InBounds'
    \/ \E id \in OrderIds : ToggleState(id) /\ InBounds'

SpecOrder == Init /\ [][NextOrder]_vars

(***************************************************************************)
(* Layout files: unparsable text, a value that is not an array, and arrays *)
(* of elements, with a repeated id, an empty id and a null among them.     *)
(***************************************************************************)
LayoutA ==
    [id |-> "a", delay |-> 1, activateOn |-> <<"X">>, deactivateOn |-> <<>>,
     triggerOn |-> <<"X">>, whenTriggered |-> chY, initialState |-> FALSE]

LayoutA2 ==
    [id |-> "a", delay |-> 2, activateOn |-> <<>>, deactivateOn |-> <<"X">>,
     triggerOn |-> <<>>, whenTriggered |-> <<>>, initialState |-> TRUE]

LayoutB ==
    [id |-> "b", delay |-> 0, activateOn |-> <<>>, deactivateOn |-> <<"Y">>,
     triggerOn |-> <<"X", ",", " ", "Y">>, whenTriggered |-> chY,
     initialState |-> TRUE]

LayoutNoId ==
    [id |-> "", delay |-> 0, activateOn |-> <<>>, deactivateOn |-> <<>>,
     triggerOn |-> <<>>, whenTriggered |-> <<>>, initialState |-> TRUE]

LayoutFiles ==
    { [kind |-> "unparsable"],
      [kind |-> "value"],
      [kind |-> "array", elements |-> <<>>],
      [kind |-> "array", elements |-> <<LayoutA, LayoutB>>],
      [kind |-> "array", elements |-> <<LayoutB, LayoutA, LayoutA2>>],
      [kind |-> "array", elements |-> <<LayoutNoId, LayoutA2, LayoutB>>],
      [kind |-> "array", elements |-> <<LayoutA, JsonNull, LayoutB>>] }

NextLoad ==
    \/ \E file \in LayoutFiles : LoadLayout(file) /\ InBounds'
    \/ \E channel \in PulseChannels, t \in PulseTimes :
           PulseChannel(channel, t) /\ InBounds'
    \/ \E tm \in timers : TimeoutFires(tm) /\ InBounds'
    \/ \E id \in Ids : ToggleState(id) /\ InBounds'

SpecLoad == Init /\ [][NextLoad]_vars

(***************************************************************************)
(* Channel strings: one trigger is made of every string of up to MaxLen    *)
(* characters, and of values that are not strings; its layout is saved and *)
(* loaded.                                                                 *)
(***************************************************************************)
MaxLen == 4

Chars == {"X", "Y", ",", " ", "\t"}

RECURSIVE StringsOfLength(_)
StringsOfLength(n) ==
    IF n = 0 THEN {<<>>}
    ELSE {<<c>> \o s : c \in Chars, s \in StringsOfLength(n - 1)}

ChannelStrings == UNION {StringsOfLength(n) : n \in 0..MaxLen}

InitParse ==
    \E s \in ChannelStrings \cup NonStrings :
        Is(addTrigger(NewSimulator, [id |-> "a", activateOn |-> s]))

ParseEvents ==
    { [property |-> "triggerOn", value |-> <<" ", "X", ",", ",", "X", " ", "Y", " ">>],
      [property |-> "deactivateOn", value |-> <<",", "\t", ",">>] }

NextParse ==
    \/ SaveThenLoad
    \/ SelectTrigger("a")
    \/ \E e \in ParseEvents : UpdateTriggerProperty(e)
    \/ ToggleState("a")

SpecParse == InitParse /\ [][NextParse]_vars

(***************************************************************************)
(* Follow-ups without delay: p and q fire on X and schedule Y, r fires on  *)
(* Y and schedules Z, all at the time of the pulse they handle.            *)
(***************************************************************************)
StepConfigs ==
    { [id |-> "p", triggerOn |-> chX, whenTriggered |-> chY, initialState |-> TRUE],
      [id |-> "q", triggerOn |-> chX, whenTriggered |-> chY, initialState |-> TRUE],
      [id |-> "r", triggerOn |-> chY, whenTriggered |-> chZ, initialState |-> TRUE] }

StepIds == {"p", "q", "r"}

NextStep ==
    \/ \E config \in StepConfigs : AddTrigger(config)
    \/ \E channel \in {chX, chY, chZ}, t \in PulseTimes : PulseChannel(channel, t)
    \/ \E tm \in timers : TimeoutFires(tm)
    \/ \E id \in StepIds : ToggleState(id)
    \/ ResetSimulation

SpecStep == Init /\ [][NextStep]_vars

(***************************************************************************)
(* Runs that need not end: y fires on Y and schedules Z, z fires on Z and  *)
(* schedules Y, both for the time of the pulse they handle; a fires on X   *)
(* and schedules Y one time unit later.  The history of broadcasts is not  *)
(* kept and the pending events are renumbered in push order, so that a run *)
(* that repeats itself is a cycle of states.  The host runs a pending      *)
(* setTimeout callback eventually.                                         *)
(***************************************************************************)
LiveConfigs ==
    { [id |-> "y", triggerOn |-> chY, whenTriggered |-> chZ, initialState |-> TRUE],
      [id |-> "z", triggerOn |-> chZ, whenTriggered |-> chY, initialState |-> TRUE],
      [id |-> "a", delay |-> 1, triggerOn |-> chX, whenTriggered |-> chY,
       initialState |-> TRUE] }

LiveIds == {"y", "z", "a"}

\* The simulator s without its history: no record of the broadcasts made,
\* and the pending events numbered from 0 in the order of their pushes.
Forget(s) ==
    LET used == {e.seq : e \in Range(s.eventQueue)} \cup
                    {tm.event.seq : tm \in s.timers}
        Rank(e) == [e EXCEPT !.seq = Cardinality({n \in used : n < e.seq})]
    IN  [s EXCEPT !.delivered = <<>>,
                  !.eventQueue = [i \in 1..Len(@) |-> Rank(@[i])],
                  !.timers = {[tm EXCEPT !.event = Rank(@)] : tm \in @}]

\* The setTimeout callback of run(), lines 323-336: the broadcast, then run().
PacingCallback ==
    \E tm \in timers :
        \E b \in {broadcastPulse(This, tm)} :
            \E r \in {run(b)} :
                \E f \in {Forget(r)} : Becomes(f)

NextLive ==
    \/ \E config \in LiveConfigs : Becomes(Forget(addTrigger(This, config)))
    \/ \E channel \in {chX, chY}, t \in PulseTimes :
           Becomes(Forget(pulseChannel(This, channel, t)))
    \/ \E id \in LiveIds : Becomes(Forget(manuallyTrigger(This, id))) /\ InBounds'
    \/ PacingCallback
    \/ \E id \in LiveIds : HasTrigger(This, id) /\ Becomes(Forget(toggleState(This, id)))
    \/ Becomes(Forget(resetSimulation(This)))

SpecLive == Init /\ [][NextLive]_vars /\ WF_vars(PacingCallback)

(***************************************************************************)
(* The queue: four active triggers that fire on X, each with its own       *)
(* delay, so that one broadcast pushes four events in registry order.      *)
(***************************************************************************)
QueueDelays == {2, 5, 8}

QueueConfig(id, d) ==
    [id |-> id, delay |-> d, triggerOn |-> <<"X">>, whenTriggered |-> chY,
     initialState |-> TRUE]

InitQueue ==
    \E d1, d2, d3, d4 \in QueueDelays :
        Is(addTrigger(addTrigger(addTrigger(addTrigger(NewSimulator,
               QueueConfig("q1", d1)), QueueConfig("q2", d2)),
               QueueConfig("q3", d3)), QueueConfig("q4", d4)))

NextQueue ==
    \/ \E t \in PulseTimes : PulseChannel(chX, t)
    \/ \E tm \in timers : TimeoutFires(tm)

SpecQueue == InitQueue /\ [][NextQueue]_vars

(***************************************************************************)
(* Properties.                                                             *)
(***************************************************************************)
\* The events pending in the simulator s: queued, or popped and waiting for
\* their delayed delivery.
PendingEvents(s) == Range(s.eventQueue) \cup {tm.event : tm \in s.timers}

\* The engine fields a rejected call must leave alone.
SameEngine(s, r) ==
    /\ r.eventQueue = s.eventQueue
    /\ r.time = s.time
    /\ r.triggers = s.triggers
    /\ r.timers = s.timers
    /\ r.activeTimeouts = s.activeTimeouts
    /\ r.isSimulating = s.isSimulating

\* C1: with every delay non-negative, the events broadcast within one run
\* have non-decreasing times, and two events of equal time are broadcast in
\* the order in which they were pushed.
C1_BroadcastOrder ==
    (\A n \in 1..Len(triggers) : triggers[n].delay >= 0) =>
        \A i, j \in 1..Len(delivered) :
            i < j => /\ delivered[i].time <= delivered[j].time
                     /\ delivered[i].time = delivered[j].time
                            => delivered[i].seq < delivered[j].seq

\* A run that broadcast two events of one time pushed by different triggers.
C1_Witness ==
    \E i, j \in 1..Len(delivered) :
        /\ i < j
        /\ delivered[i].time = delivered[j].time
        /\ delivered[i].sourceId = "a"
        /\ delivered[j].sourceId = "b"

\* C2: while the engine is running, pulseChannel and manuallyTrigger change
\* neither the queue, the clock, a trigger, the pending deliveries nor the run
\* state, whatever the channel or the trigger.
C2_RunGate ==
    isSimulating =>
        /\ \A channel \in PulseChannels, t \in PulseTimes :
               SameEngine(This, pulseChannel(This, channel, t))
        /\ \A id \in Ids : SameEngine(This, manuallyTrigger(This, id))

\* A pulse was rejected in the pacing interval, the queue being empty.
C2_Witness ==
    /\ isSimulating
    /\ eventQueue = <<>>
    /\ timers # {}
    /\ logHead = "Cannot pulse; simulation is already running."

\* C3: resetSimulation() and clear(), called while a delayed delivery is
\* pending, leave no delivery pending (the popped event is never broadcast),
\* the queue empty, the clock at 0 and the engine idle.
C3_ResetCancels ==
    timers # {} =>
        \A r \in {resetSimulation(This), clear(This)} :
            /\ r.timers = {}
            /\ r.activeTimeouts = <<>>
            /\ r.eventQueue = <<>>
            /\ r.time = 0
            /\ ~r.isSimulating

\* A delivery is pending, with more events queued and the clock advanced.
C3_Witness ==
    /\ timers # {}
    /\ eventQueue # <<>>
    /\ time > 0

\* C4: resetSimulation() leaves every trigger with state = initialState, the
\* initialState it had before, and the queue empty.
C4_ResetBaseline ==
    LET r == resetSimulation(This)
    IN  /\ Len(r.triggers) = Len(triggers)
        /\ \A i \in 1..Len(triggers) :
               /\ r.triggers[i].id = triggers[i].id
               /\ r.triggers[i].initialState = triggers[i].initialState
               /\ r.triggers[i].state = triggers[i].initialState
        /\ r.eventQueue = <<>>

\* A trigger was moved away from its baseline by a pulse, events are queued.
C4_Witness ==
    /\ \E i \in 1..Len(triggers) : triggers[i].state # triggers[i].initialState
    /\ eventQueue # <<>>

\* C5: a trigger with a channel in both activateOn and deactivateOn is
\* inactive after handlePulse on that channel, which returns true, whatever
\* its state before.
C5_TieBreak ==
    \A i \in 1..Len(triggers), channel \in PulseChannels, before \in BOOLEAN :
        (includes(triggers[i].activateOn, channel)
            /\ includes(triggers[i].deactivateOn, channel)) =>
            LET r == handlePulse([triggers[i] EXCEPT !.state = before],
                                 channel, time, 0)
            IN  ~r.trigger.state /\ r.handled

\* Such a trigger, active by its baseline, was deactivated by a broadcast.
C5_Witness ==
    \E i \in 1..Len(triggers) :
        /\ includes(triggers[i].activateOn, chX)
        /\ includes(triggers[i].deactivateOn, chX)
        /\ triggers[i].initialState
        /\ ~triggers[i].state
        /\ \E k \in 1..Len(delivered) : delivered[k].channel = chX

\* C6: handlePulse pushes exactly when the channel is in triggerOn, the state
\* after the activation and deactivation checks of the call is active and
\* whenTriggered is set, and then pushes the one event
\* {currentTime + delay, whenTriggered, id}.
C6_FireRule ==
    \A i \in 1..Len(triggers), channel \in PulseChannels, before \in BOOLEAN :
        LET t == [triggers[i] EXCEPT !.state = before]
            r == handlePulse(t, channel, time, 0)
            inAct == includes(t.activateOn, channel)
            inDeact == includes(t.deactivateOn, channel)
            inTrig == includes(t.triggerOn, channel)
            post == IF inDeact THEN FALSE ELSE IF inAct THEN TRUE ELSE before
        IN  /\ r.pushed = IF inTrig /\ post /\ Truthy(t.whenTriggered)
                          THEN <<[time |-> time + t.delay, channel |-> t.whenTriggered,
                                  sourceId |-> t.id, seq |-> 0]>>
                          ELSE <<>>
            /\ (~before /\ inAct /\ inTrig /\ ~inDeact /\ Truthy(t.whenTriggered))
                   => Len(r.pushed) = 1
            /\ (before /\ inDeact /\ inTrig) => r.pushed = <<>>
            /\ (~before /\ inTrig /\ ~inAct /\ ~inDeact)
                   => r.pushed = <<>> /\ ~r.handled

\* A trigger that a pulse on X both activated and fired: its event is pending
\* after the first broadcast of the run.
C6_Witness ==
    \E i \in 1..Len(triggers) :
        /\ includes(triggers[i].activateOn, chX)
        /\ includes(triggers[i].triggerOn, chX)
        /\ ~includes(triggers[i].deactivateOn, chX)
        /\ ~triggers[i].initialState
        /\ triggers[i].state
        /\ Len(delivered) = 1
        /\ delivered[1].channel = chX
        /\ \E e \in PendingEvents(This) :
               e.sourceId = triggers[i].id /\ e.time = time + triggers[i].delay


\* C7: the clock never decreases except through resetSimulation() and
\* clear(): every other step leaves it at least as large as it was.
C7_ClockMonotone == [][ResetSimulation \/ Clear \/ time' >= time]_vars

\* C7 as amended: the clock decreases only through resetSimulation(), clear()
\* or the first pop of a run that pulseChannel starts; the callback of the run
\* loop and manuallyTrigger never set it back.
C7_ClockMonotoneInRun ==
    [][\/ ResetSimulation
       \/ Clear
       \/ \E channel \in PulseChannels, t \in PulseTimes : PulseChannel(channel, t)
       \/ time' >= time]_vars

\* The clock has advanced within a run, past the time of its first event.
C7_Witness ==
    /\ isSimulating
    /\ delivered # <<>>
    /\ time > delivered[1].time

\* The simulator state but for the log.
SameSimulator(s, r) == SameEngine(s, r) /\ r.selectedTrigger = s.selectedTrigger

\* C8: while the engine is running, updateTriggerProperty changes neither the
\* selected trigger nor anything else of the simulator.
C8_EditRejected ==
    isSimulating =>
        \A e \in EditEvents : SameSimulator(This, updateTriggerProperty(This, e))

\* The queue q without the event e.
Without(q, e) ==
    LET Other(f) == f # e
    IN  SelectSeq(q, Other)

\* The place of the event e in the queue q.
Place(q, e) == CHOOSE i \in 1..Len(q) : q[i] = e

\* For the pending delivery tm: the queue its broadcast leaves, the events
\* run() then pops from it and the queue run() leaves.
PopAfter(tm) ==
    LET b == broadcastPulse(This, tm)
        r == run(b)
    IN  [ queue  |-> b.eventQueue,
          popped |-> {new.event : new \in r.timers \ b.timers},
          rest   |-> r.eventQueue ]

\* One event is popped: an event of minimal time and, among those of that
\* time, the one pushed first.
PopsFirstOfMinimalTime(p) ==
    \E popped \in p.popped :
        /\ p.popped = {popped}
        /\ popped \in Range(p.queue)
        /\ \A e \in Range(p.queue) : popped.time <= e.time
        /\ \A e \in Range(p.queue) : e.time = popped.time => popped.seq <= e.seq
        /\ Range(p.rest) = Range(p.queue) \ {popped}
        /\ Len(p.rest) = Len(p.queue) - 1

\* The events left keep the order they had in the queue.
RestInOrder(p) == \A popped \in p.popped : p.rest = Without(p.queue, popped)

\* The events left that have equal times keep the order they had in the queue.
RestInOrderPerTime(p) ==
    \A e, f \in Range(p.rest) :
        (e.time = f.time /\ Place(p.queue, e) < Place(p.queue, f))
            => Place(p.rest, e) < Place(p.rest, f)

\* C9 as stated: the extraction removes an event of minimal time, the first
\* pushed of that time, and the events left keep their relative order.
C9_PopMinKeepsOrder ==
    \A tm \in timers :
        LET p == PopAfter(tm)
        IN  p.queue # <<>> => PopsFirstOfMinimalTime(p) /\ RestInOrder(p)

\* C9 as amended: the extraction removes an event of minimal time, the first
\* pushed of that time, and the events left that have equal times keep their
\* relative order.
C9_PopMinKeepsOrderPerTime ==
    \A tm \in timers :
        LET p == PopAfter(tm)
        IN  p.queue # <<>> => PopsFirstOfMinimalTime(p) /\ RestInOrderPerTime(p)

\* Pushes with times 5, 2, 2, 8 were popped as first 2, second 2, 5, 8.
C9_Witness ==
    /\ Len(delivered) = 5
    /\ [i \in 1..5 |-> delivered[i].time] = <<0, 2, 2, 5, 8>>
    /\ [i \in 1..5 |-> delivered[i].sourceId] = <<"EXTERNAL", "q2", "q3", "q1", "q4">>

\* C10: manuallyTrigger(id) on an idle engine is rejected for an inactive
\* trigger; for an active one with whenTriggered it schedules the one event
\* {clock + delay, whenTriggered, id} and starts a run; for an active one
\* without whenTriggered it schedules nothing and leaves the engine idle. No
\* trigger is changed by the call.
C10_ManualFire ==
    ~isSimulating =>
        \A i \in 1..Len(triggers) :
            LET t == triggers[i]
                r == manuallyTrigger(This, t.id)
            IN  /\ r.triggers = triggers
                /\ ~t.state => SameEngine(This, r)
                /\ (t.state /\ Truthy(t.whenTriggered)) =>
                       /\ PendingEvents(r) = PendingEvents(This) \cup
                              {Event(time + t.delay, t.whenTriggered, t.id, 0)}
                       /\ Cardinality(PendingEvents(r)) = 1
                       /\ r.isSimulating
                /\ (t.state /\ ~Truthy(t.whenTriggered)) =>
                       /\ PendingEvents(r) = {}
                       /\ ~r.isSimulating

\* A manual fire started the run: the first event pending comes from a trigger.
C10_Witness ==
    /\ isSimulating
    /\ delivered = <<>>
    /\ \E tm \in timers, i \in 1..Len(triggers) :
           /\ tm.event.sourceId = triggers[i].id
           /\ tm.event.channel = triggers[i].whenTriggered
           /\ triggers[i].state
           /\ time = tm.event.time

\* C11: the manual toggle of a trigger, clicked while the engine is idle,
\* inverts the trigger's state and makes the new state its initialState as
\* well, so that both agree afterwards; clicked while a run is in progress it
\* changes neither field of any trigger.
C11_Toggle ==
    \A i \in 1..Len(triggers) :
        LET t == triggers[i]
            r == toggleState(This, t.id)
        IN  /\ ~isSimulating =>
                   /\ Len(r.triggers) = Len(triggers)
                   /\ r.triggers[i].state = ~t.state
                   /\ r.triggers[i].initialState = ~t.state
                   /\ r.triggers[i].state = r.triggers[i].initialState
            /\ isSimulating => r.triggers = triggers

\* A toggle has just been made, while idle, on a trigger that was created
\* inactive: it is active now and so is its initial state.
C11_Witness ==
    /\ logHead = "Manually toggled."
    /\ ~isSimulating
    /\ \E i \in 1..Len(triggers) :
           triggers[i].id = "a" /\ triggers[i].state /\ triggers[i].initialState

\* C12: between two consecutive states, a trigger that is in the registry in
\* both has a different state only if the step is the broadcast of a pulse
\* whose channel is in its activateOn or deactivateOn list, its manual
\* toggle, or a simulation reset; it has a different initialState only if
\* the step is its manual toggle, made while the engine is idle.  Pulse
\* injection, manual fire, field edits and the creation or deletion of
\* another trigger change neither.
C12_StateFrame ==
    [][\A i \in 1..Len(triggers) : \A j \in 1..Len(triggers') :
           LET t == triggers[i]
               u == triggers'[j]
           IN  t.id = u.id =>
                   /\ t.state # u.state =>
                          \/ \E tm \in timers :
                                 /\ TimeoutFires(tm)
                                 /\ \/ includes(t.activateOn, tm.event.channel)
                                    \/ includes(t.deactivateOn, tm.event.channel)
                          \/ ToggleState(t.id)
                          \/ ResetSimulation
                   /\ t.initialState # u.initialState =>
                          ToggleState(t.id) /\ ~isSimulating]_vars

\* A field of a trigger was edited while its state differed from its initial
\* state, next to a second trigger: the edit left both fields as they were.
C12_Witness ==
    /\ logHead = "Updated property."
    /\ Len(triggers) = 2
    /\ \E i \in 1..Len(triggers) :
           triggers[i].id = "a" /\ triggers[i].state /\ ~triggers[i].initialState

\* The simulator s after every pending delivery has been made: the run that
\* is in progress in s, run to completion.
RECURSIVE RunToCompletion(_)
RunToCompletion(s) ==
    IF s.timers = {} THEN s
    ELSE RunToCompletion(timeoutCallback(s, CHOOSE tm \in s.timers : TRUE))

\* The injections RESET, A_ON and B_ON, each at time 0 and each run to
\* completion, on the AND gate of the page.
AndScenario ==
    RunToCompletion(pulseChannel(
        RunToCompletion(pulseChannel(
            RunToCompletion(pulseChannel(AndGate, RESET, 0)),
            A_ON, 0)),
        B_ON, 0))

Active(id) == TriggerOf(This, id).state

\* C13: on the AND gate of the page, with pulses injected at time 0 while
\* idle: when a run of RESET has ended, T_A_MEM, T_B_MEM and T_CHAIN are
\* inactive; when a run of A_ON has ended, T_A_MEM and T_CHAIN are active;
\* when B_ON has been broadcast with T_CHAIN active, T_B_MEM is active and
\* exactly one event is pending, AND_SUCCESS at time 2 from T_CHAIN; and when
\* that event has been broadcast as the second of the run, the clock is 2,
\* T_RESULT is active, the queue is empty and the engine is idle.
C13_AndGate ==
    /\ (~isSimulating /\ Len(delivered) = 1 /\ delivered[1].channel = RESET) =>
           ~Active("T_A_MEM") /\ ~Active("T_B_MEM") /\ ~Active("T_CHAIN")
    /\ (~isSimulating /\ Len(delivered) = 1 /\ delivered[1].channel = A_ON) =>
           Active("T_A_MEM") /\ Active("T_CHAIN")
    /\ (Len(delivered) = 1 /\ delivered[1].channel = B_ON /\ Active("T_CHAIN")) =>
           /\ Active("T_B_MEM")
           /\ isSimulating
           /\ Cardinality(PendingEvents(This)) = 1
           /\ \A e \in PendingEvents(This) :
                  e.time = 2 /\ e.channel = AND_SUCCESS /\ e.sourceId = "T_CHAIN"
    /\ (Len(delivered) = 2 /\ delivered[2].channel = AND_SUCCESS) =>
           /\ delivered[1].channel = B_ON
           /\ delivered[2].time = 2
           /\ delivered[2].sourceId = "T_CHAIN"
           /\ time = 2
           /\ Active("T_RESULT")
           /\ PendingEvents(This) = {}
           /\ ~isSimulating

\* The scenario RESET, A_ON, B_ON has been played to its end: all four
\* triggers are active, the clock is 2 and the engine is idle.
C13_Witness ==
    /\ Is(AndScenario)
    /\ Active("T_A_MEM") /\ Active("T_B_MEM") /\ Active("T_CHAIN")
    /\ Active("T_RESULT")
    /\ time = 2
    /\ ~isSimulating

\* No trigger of the registry has the channel in one of its three lists.
Unlisted(channel) ==
    \A i \in 1..Len(triggers) :
        /\ ~includes(triggers[i].activateOn, channel)
        /\ ~includes(triggers[i].deactivateOn, channel)
        /\ ~includes(triggers[i].triggerOn, channel)

\* No trigger of the registry reacts to the channel: none has it in its
\* activateOn or deactivateOn list, and none that is active has it in its
\* triggerOn list.
Unanswered(channel) ==
    \A i \in 1..Len(triggers) :
        /\ ~includes(triggers[i].activateOn, channel)
        /\ ~includes(triggers[i].deactivateOn, channel)
        /\ ~(includes(triggers[i].triggerOn, channel) /\ triggers[i].state)

\* The step continues the run as run() does after any broadcast: with events
\* queued it pops one of minimal time and waits for its delivery, with none
\* it ends the run.
RunContinues ==
    /\ eventQueue # <<>> =>
           /\ isSimulating'
           /\ Len(eventQueue') = Len(eventQueue) - 1
           /\ \E tm \in timers' :
                  /\ timers' = {tm}
                  /\ tm.event \in Range(eventQueue)
                  /\ \A e \in Range(eventQueue) : tm.event.time <= e.time
                  /\ time' = tm.event.time
    /\ eventQueue = <<>> => ~isSimulating' /\ timers' = {} /\ eventQueue' = <<>>

\* C14 as stated: a broadcast pulse is reported as unhandled exactly when its
\* channel is in no trigger's activateOn, deactivateOn or triggerOn list, and
\* the run continues after an unhandled pulse.
C14_UnhandledIffUnlisted ==
    [][\A tm \in timers :
           TimeoutFires(tm) =>
               /\ ~handledAtLeastOnce(This, tm.event.channel)
                      <=> Unlisted(tm.event.channel)
               /\ ~handledAtLeastOnce(This, tm.event.channel) => RunContinues]_vars

\* C14, amended: a broadcast pulse is reported as unhandled exactly when no
\* trigger has its channel in its activateOn or deactivateOn list and no
\* active trigger has it in its triggerOn list; an unhandled pulse changes no
\* trigger and the run continues with the queued events, or ends when there
\* is none.
C14_UnhandledIffUnanswered ==
    [][\A tm \in timers :
           TimeoutFires(tm) =>
               /\ ~handledAtLeastOnce(This, tm.event.channel)
                      <=> Unanswered(tm.event.channel)
               /\ ~handledAtLeastOnce(This, tm.event.channel) =>
                      triggers' = triggers /\ RunContinues]_vars

\* The pulse Y has been broadcast to a registry in which only the inactive c
\* has Y in a list, and the run goes on with the event Z that was queued.
C14_Witness ==
    /\ isSimulating
    /\ Len(delivered) = 2
    /\ delivered[2].channel = chY
    /\ Unanswered(chY) /\ ~Unlisted(chY)
    /\ \E tm \in timers : tm.event.channel = chZ

\* C15: the broadcast of a pending event has every trigger of the registry
\* handle the pulse once, in the order in which the triggers were added, so
\* that the events pushed by that broadcast are in the queue, behind the
\* events already there, in the order in which their sources were added.
C15_InsertionOrder ==
    \A tm \in timers :
        LET r == broadcastPulse(This, tm)
            new == SubSeq(r.eventQueue, Len(eventQueue) + 1, Len(r.eventQueue))
            Pos(id) == CHOOSE i \in 1..Len(triggers) : triggers[i].id = id
        IN  /\ SubSeq(r.eventQueue, 1, Len(eventQueue)) = eventQueue
            /\ \A k \in 1..Len(new) : HasTrigger(This, new[k].sourceId)
            /\ \A k, l \in 1..Len(new) :
                   k < l => Pos(new[k].sourceId) < Pos(new[l].sourceId)

\* C16: addTrigger with a config whose id is absent, empty or the id of a
\* trigger of the registry changes nothing; with any other id it appends
\* exactly one trigger, with that id and with state equal to initialState,
\* and leaves the triggers already there as they were.
C16_AddTrigger ==
    \A config \in Configs :
        LET r == addTrigger(This, config)
        IN  IF "id" \notin DOMAIN config \/ config.id = ""
                  \/ HasTrigger(This, config.id)
            THEN r = This
            ELSE /\ Len(r.triggers) = Len(triggers) + 1
                 /\ SubSeq(r.triggers, 1, Len(triggers)) = triggers
                 /\ r.triggers[Len(r.triggers)].id = config.id
                 /\ r.triggers[Len(r.triggers)].state =
                        r.triggers[Len(r.triggers)].initialState

\* The triggers made of the first element of each distinct non-empty id, in
\* the order of the array.
RECURSIVE FirstOfEachId(_, _)
FirstOfEachId(elements, seen) ==
    IF elements = <<>> THEN <<>>
    ELSE LET e == Head(elements)
         IN  IF e = JsonNull \/ e.id = "" \/ e.id \in seen
             THEN FirstOfEachId(Tail(elements), seen)
             ELSE <<NewTrigger(e)>> \o FirstOfEachId(Tail(elements), seen \cup {e.id})

\* C17: loading a file that is unparsable or does not hold an array changes
\* nothing; loading an array leaves the engine idle with nothing queued or
\* pending and the clock at 0, and a registry that holds, for each distinct
\* non-empty id of the array, the trigger made of the first element with that
\* id, in the order of the array.
C17_LoadLayout ==
    \A file \in LayoutFiles :
        LET r == onload(This, file)
        IN  IF file.kind # "array"
            THEN r = This
            ELSE /\ ~r.isSimulating
                 /\ r.timers = {}
                 /\ r.activeTimeouts = <<>>
                 /\ r.eventQueue = <<>>
                 /\ r.time = 0
                 /\ r.triggers = FirstOfEachId(file.elements, {})

\* The lists of channel names of the triggers of the registry.
ChannelLists ==
    UNION {{triggers[i].activateOn, triggers[i].deactivateOn, triggers[i].triggerOn} :
               i \in 1..Len(triggers)}

\* C18: a list that parseChannels made of a string is what parseChannels
\* makes of the list joined with ", ", in the same order and with the same
\* repetitions; each of its elements is non-empty and neither starts nor ends
\* with white space; and parseChannels makes the empty list of the empty
\* string and of a value that is not a string.
C18_ParseRoundTrip ==
    /\ \A list \in ChannelLists :
           /\ parseChannels(join(list, <<",", " ">>)) = list
           /\ \A k \in 1..Len(list) :
                  /\ list[k] # <<>>
                  /\ Head(list[k]) \notin WhiteSpace
                  /\ list[k][Len(list[k])] \notin WhiteSpace
                  /\ "," \notin Range(list[k])
    /\ \A v \in NonStrings \cup {<<>>} : parseChannels(v) = <<>>

\* A saved layout has been loaded whose trigger has a list with a repeated
\* name and a list with a name that has a space inside.
C18_Witness ==
    /\ logHead = "Layout loaded."
    /\ \E i \in 1..Len(triggers) :
           /\ triggers[i].activateOn = << <<"X">>, <<"X">> >>
           /\ triggers[i].triggerOn = << <<"X">>, <<"X", " ", "Y">> >>

\* C19: the delivery of a pending event e is the only one outstanding and e
\* has not been broadcast before; the step broadcasts e alone, so that every
\* trigger handles the channel of e once and the events pushed by the step
\* are still pending after it, even those scheduled for the time of e; and
\* among the events of one time the deliveries follow the order of the
\* pushes: every event of the time of e delivered before e was pushed before
\* e, and every one still pending after the step was pushed after e.
C19_StepAtomic ==
    [][\A tm \in timers :
           TimeoutFires(tm) =>
               LET e == tm.event
                   b == broadcastPulse(This, tm)
                   pushed == Range(b.eventQueue) \ Range(eventQueue)
                   pendingAfter == Range(eventQueue') \cup {n.event : n \in timers'}
               IN  /\ timers = {tm}
                   /\ e \notin Range(delivered)
                   /\ delivered' = Append(delivered, e)
                   /\ triggers' = [i \in 1..Len(triggers) |->
                                      handlePulse(triggers[i], e.channel, time, 0).trigger]
                   /\ Cardinality(timers') <= 1
                   /\ pushed \subseteq pendingAfter
                   /\ \A n \in pushed : n.seq > e.seq
                   /\ \A d \in Range(delivered) : d.time = e.time => d.seq < e.seq
                   /\ \A n \in pendingAfter : n.time = e.time => n.seq > e.seq]_vars

\* X was broadcast at time 0 and p and q scheduled Y for time 0; the
\* broadcast of the first Y had r schedule Z for time 0 while the second Y
\* was in the queue; the second Y was broadcast next, and then that Z.
C19_Witness ==
    /\ Len(delivered) >= 4
    /\ \A i \in 1..4 : delivered[i].time = 0 /\ delivered[i].seq = i - 1
    /\ delivered[2].channel = chY /\ delivered[3].channel = chY
    /\ delivered[4].channel = chZ /\ delivered[4].sourceId = "r"

\* The channels that the triggers listening on channel schedule.
Schedules(channel) ==
    {triggers[i].whenTriggered :
         i \in {k \in 1..Len(triggers) :
                    /\ includes(triggers[k].triggerOn, channel)
                    /\ Truthy(triggers[k].whenTriggered)}}

\* The channels scheduled from the channels S in up to n further firings.
RECURSIVE ScheduledFrom(_, _)
ScheduledFrom(S, n) ==
    IF n = 0 THEN S
    ELSE ScheduledFrom(S \cup UNION {Schedules(c) : c \in S}, n - 1)

\* No channel is scheduled, directly or through other triggers, by a trigger
\* that listens on it.
Acyclic ==
    \A i \in 1..Len(triggers) :
        LET c == triggers[i].whenTriggered
        IN  Truthy(c) => c \notin ScheduledFrom(Schedules(c), Len(triggers))

\* A step that ends a run does so by a reset, or by the pacing callback
\* finding the queue empty after its broadcast; nothing is queued or pending
\* after it.
IdleOnlyWhenDrained ==
    (isSimulating /\ ~isSimulating') =>
        /\ eventQueue' = <<>>
        /\ timers' = {}
        /\ \/ logHead' = "Simulation reset to initial states."
           \/ \E tm \in timers :
                  /\ timers = {tm}
                  /\ eventQueue = <<>>
                  /\ broadcastPulse(This, tm).eventQueue = <<>>
                  /\ triggers' = broadcastPulse(This, tm).triggers
                  /\ logHead' = "--- Simulation End ---"

\* C20 as stated: with the pacing callback always run eventually, every run
\* ends, whatever the registry holds; and the engine becomes idle only in a
\* step that finds the queue empty after the broadcast.
C20_RunEnds ==
    /\ isSimulating ~> ~isSimulating
    /\ [][IdleOnlyWhenDrained]_vars

\* C20, amended: with the pacing callback always run eventually, a run on a
\* registry in which no channel is scheduled by the consequences of its own
\* pulse ends, unless the registry stops being that way; and the engine
\* becomes idle only in a step that finds the queue empty after the
\* broadcast.
C20_AcyclicRunEnds ==
    /\ (isSimulating /\ Acyclic) ~> (~isSimulating \/ ~Acyclic)
    /\ [][IdleOnlyWhenDrained]_vars

\* A run on a and y, started by X and continued with the Y that a scheduled
\* for time 1 and the Z that y scheduled then, has ended with the clock at 1.
C20_Witness ==
    /\ ~isSimulating
    /\ logHead = "--- Simulation End ---"
    /\ time = 1
    /\ Acyclic
    /\ HasTrigger(This, "a") /\ TriggerOf(This, "a").state
    /\ HasTrigger(This, "y") /\ TriggerOf(This, "y").state
    /\ PendingEvents(This) = {}

\* The ids of the triggers of the registry.
RegistryIds == {triggers[i].id : i \in 1..Len(triggers)}

\* C21: no step taken while a run is in progress, and that leaves it in
\* progress, changes the set of triggers of the registry: a trigger is
\* neither added nor deleted between the start of a run and its end.
C21_RegistryFixed ==
    [][(isSimulating /\ isSimulating') => RegistryIds' = RegistryIds]_vars

\* C22: in every state between two operations at most one delayed delivery
\* is pending, and it is the one the engine has on record in activeTimeouts;
\* the engine is running exactly when one is pending; and when the engine is
\* idle the event queue is empty.
C22_OnePending ==
    /\ Cardinality(timers) <= 1
    /\ {tm.id : tm \in timers} = Range(activeTimeouts)
    /\ Len(activeTimeouts) = Cardinality(timers)
    /\ isSimulating <=> Cardinality(timers) = 1
    /\ ~isSimulating => eventQueue = <<>>

\* A run is under way after a broadcast: one delivery is pending and a
\* further event waits in the queue.
C22_Witness ==
    /\ isSimulating
    /\ Cardinality(timers) = 1
    /\ eventQueue # <<>>
    /\ delivered # <<>>

====
